---- MODULE Spec2Model ----
(***************************************************************************)
(* Model of package eksclient of udhos/eks: the token cache                *)
(* (tokenGenerator), the authenticating transport (tokenTransport) and the *)
(* options handling of New.                                                *)
(*                                                                         *)
(* Time is counted in seconds.  A time.Time is an integer, the zero        *)
(* time.Time is ZeroTime, and the wall clock starts at StartTime, later    *)
(* than ZeroTime by more than any duration the model uses (time.Now() is   *)
(* some 2000 years after the zero time.Time, a time.Duration spans at most *)
(* 292 years).                                                             *)
(*                                                                         *)
(* Each process is a goroutine that sends requests through the client,     *)
(* one after the other; every request goes through tokenTransport.RoundTrip*)
(* which calls tokenGenerator.Get.  A goroutine is at "Get" when it has    *)
(* called Get (and waits for the lock), at "generate" while the generator  *)
(* runs, at "return" when Get has its result (and still holds the lock),   *)
(* at "send" when RoundTrip has set the header and is about to call the    *)
(* wrapped transport.                                                      *)
(*                                                                         *)
(* Spec is the package with the mutex-guarded cache (Options.ReuseToken,   *)
(* Options.RefreshEarlier); SpecPlain is eksclient/client.go, whose cache  *)
(* has no lock.  Both have the same tokenTransport.RoundTrip.  Both start  *)
(* before the caller calls New, which builds the cache and the clientset   *)
(* or returns an error.  SpecFair is Spec with the scheduling that         *)
(* progress rests on.                                                      *)
(***************************************************************************)
EXTENDS Integers, Sequences, FiniteSets, TLC

(***************************************************************************)
(* Bounds of the model.                                                    *)
(***************************************************************************)
NumProcs == 2
MaxClock == 1
MaxRequests == 2

Procs == 1..NumProcs

(***************************************************************************)
(* Values of the program.                                                  *)
(***************************************************************************)
ZeroTime == 0
StartTime == 5
DefaultRefreshEarlier == 10

\* values a caller puts in Options.RefreshEarlier (0 is "unspecified")
RefreshEarlierInputs == {0, 1}

\* how long after its generation a generated token expires
Lifetimes == {1, 11}

NoError == "nil"
GenErrors == {"errSession", "errPresign"}
TransportErrors == {"errNet"}

NoResponse == "nil"
Responses == {"resp200"}

\* errors of token.NewGenerator and of kubernetes.NewForConfig
NewGeneratorErrors == {"errNewGenerator"}
NewForConfigErrors == {"errConfig"}

\* base64.CorruptInputError
CorruptInput == "errCorruptInput"

\* what New returns next to an error, and the clientset it returns otherwise
NoClientset == "nil"
Clientset == "clientset"

\* no call of New has returned
NotBuilt == [clientset |-> NoClientset, err |-> NoError]

\* the alphabet of base64.StdEncoding, and its padding character
Base64Alphabet ==
    {"A", "B", "C", "D", "E", "F", "G", "H", "I", "J", "K", "L", "M",
     "N", "O", "P", "Q", "R", "S", "T", "U", "V", "W", "X", "Y", "Z",
     "a", "b", "c", "d", "e", "f", "g", "h", "i", "j", "k", "l", "m",
     "n", "o", "p", "q", "r", "s", "t", "u", "v", "w", "x", "y", "z",
     "0", "1", "2", "3", "4", "5", "6", "7", "8", "9", "+", "/"}

StdPadding == "="

\* values a caller puts in Options.ClusterCAData, as sequences of characters:
\* "QUJD" (well-formed), "QUJ" (a character short), "Q*JD" (a character
\* outside the alphabet), "Q=JD" (padding inside)
ClusterCADataInputs ==
    { <<"Q", "U", "J", "D">>, <<"Q", "U", "J">>,
      <<"Q", "*", "J", "D">>, <<"Q", "=", "J", "D">> }

\* the padding characters at the end of s: two at most
PaddingLen(s) ==
    IF Len(s) >= 2 /\ s[Len(s)] = StdPadding /\ s[Len(s) - 1] = StdPadding THEN 2
    ELSE IF Len(s) >= 1 /\ s[Len(s)] = StdPadding THEN 1
    ELSE 0

\* the error of base64.StdEncoding.DecodeString(s): s is made of groups of
\* four characters of the alphabet, the last group padded to four
DecodeStringError(s) ==
    IF /\ Len(s) % 4 = 0
       /\ \A i \in 1..(Len(s) - PaddingLen(s)) : s[i] \in Base64Alphabet
      THEN NoError
      ELSE CorruptInput

\* the zero value of token.Token: the never-set g.last, and the value the
\* generator returns next to an error
ZeroToken == [Token |-> "", Expiration |-> ZeroTime]

\* the i-th token string the generator produces
TokenString(i) == "tok" \o ToString(i)

\* the header of a request: only Authorization and one other key are modelled
HeaderKeys == {"Authorization", "Accept"}

HeaderSetAlone(h, k, v) == [h EXCEPT ![k] = <<v>>, !.Accept = <<>>]

\* http.Header.Set: replaces every value of the key by the single value v
HeaderAdd(h, k, v) == [h EXCEPT ![k] = Append(@, v)]

HeaderSet(h, k, v) == [h EXCEPT ![k] = <<v>>]

\* fmt.Sprintf("Bearer %s", tok.Token)
Bearer(t) == "Bearer " \o t

\* the requests a caller may hand to RoundTrip: method, URL, body and context
\* next to the header values
NewRequests ==
    { [Method |-> "GET", URL |-> "/api/v1/pods", Body |-> "body", Ctx |-> "ctx",
       Authorization |-> a, Accept |-> <<"json">>] : a \in {<<>>, <<"Bearer stale">>} }

\* a goroutine that is not in RoundTrip holds no request
NoRequest ==
    [Method |-> "", URL |-> "", Body |-> "", Ctx |-> "",
     Authorization |-> <<>>, Accept |-> <<>>]

VARIABLES
    input,      \* the Options the caller passes to New
    client,     \* what New returned: the clientset and the error
    given,      \* the request the callers of this client hand to RoundTrip
    options,    \* tokenGenerator.options, as New leaves them
    last,       \* tokenGenerator.last
    lock,       \* tokenGenerator.lock: 0 when free, else the holder
    clock,      \* the wall clock, time.Now()
    pc,         \* position of each goroutine in RoundTrip / Get
    now,        \* Get's local now
    tok,        \* Get's returned token, RoundTrip's local tok
    err,        \* Get's returned error, RoundTrip's local err
    req,        \* the request RoundTrip was given, while RoundTrip runs
    result,     \* what RoundTrip returned for the goroutine's last request
    sent,       \* requests the wrapped transport received, per goroutine
    hist        \* history: counters and snapshots used to state properties

vars == <<input, client, given, options, last, lock, clock, pc, now, tok, err, req, result, sent, hist>>

\* the Options a caller may pass to New
OptionsInputs ==
    [ReuseToken : BOOLEAN, RefreshEarlier : RefreshEarlierInputs,
     ClusterCAData : ClusterCADataInputs]

\* the options of a tokenGenerator that does not exist yet
ZeroOptions == [ReuseToken |-> FALSE, RefreshEarlier |-> 0]

NewOptionsFixed(reuse, refreshEarlier) ==
    [ReuseToken |-> reuse, RefreshEarlier |-> DefaultRefreshEarlier]

(***************************************************************************)
(* New: options.RefreshEarlier defaults to 10s when it is 0.               *)
(***************************************************************************)
NewOptions(reuse, refreshEarlier) ==
    [ReuseToken |-> reuse,
     RefreshEarlier |-> IF refreshEarlier = 0 THEN DefaultRefreshEarlier
                        ELSE refreshEarlier]

(***************************************************************************)
(* tokenGenerator.needsRefresh: now.Add(RefreshEarlier).After(Expiration)  *)
(* when ReuseToken is set, true otherwise.                                 *)
(***************************************************************************)
needsRefreshAlways(o, l, n) == TRUE

needsRefreshBefore(o, l, n) ==
    IF o.ReuseToken THEN n + o.RefreshEarlier < l.Expiration ELSE TRUE

needsRefreshIgnoreFlag(o, l, n) ==
    n + o.RefreshEarlier > l.Expiration

needsRefresh(o, l, n) ==
    IF o.ReuseToken THEN n + o.RefreshEarlier > l.Expiration ELSE TRUE

NoResult == [resp |-> NoResponse, err |-> NoError]

HistInit ==
    [genCalls |-> 0,            \* generator invocations started
     getCalls |-> 0,            \* Get calls returned
     requests |-> 0,            \* RoundTrip calls started
     minted |-> <<>>,           \* tokens the generator returned without error
     lastOk |-> ZeroToken,      \* token of the latest Get that returned no error
     serial |-> 0,              \* Get calls that acquired the lock
     order |-> [p \in Procs |-> 0],         \* serial of p's current Get
     before |-> [p \in Procs |-> ZeroToken],\* g.last when p's Get acquired the lock
     calls |-> [p \in Procs |-> 0],         \* generator invocations of p's Get
     genErr |-> [p \in Procs |-> NoError],  \* error of p's generator invocation
     genTok |-> [p \in Procs |-> ZeroToken],\* token of p's generator invocation
     orig |-> [p \in Procs |-> NoRequest],  \* request as given
     reply |-> [p \in Procs |-> NoResult],  \* what the wrapped transport returned
     failed |-> FALSE,          \* the generator failed in the latest Get that ran
     afterFail |-> [p \in Procs |-> FALSE], \* failed, when p's Get started to run
     waited |-> [p \in Procs |-> FALSE]]    \* a Get returned while p's Get waited

newTokenGeneratorEager(o) ==
    [options |-> o, last |-> [Token |-> "tok0", Expiration |-> StartTime + 11]]

\* newTokenGenerator: the tokenGenerator holds the options; last is not set
newTokenGenerator(o) == [options |-> o, last |-> ZeroToken]

DecodeFailedNever(e) == FALSE

\* newClientset's test err != nil after DecodeString
DecodeFailed(e) == e # NoError

\* what newClientset returns when DecodeString returned error ed and
\* kubernetes.NewForConfig would return error ec
newClientset(ed, ec) ==
    IF DecodeFailed(ed) THEN [clientset |-> NoClientset, err |-> ed]
    ELSE IF ec # NoError THEN [clientset |-> NoClientset, err |-> ec]
    ELSE [clientset |-> Clientset, err |-> NoError]

\* before the caller calls New: no tokenGenerator, no clientset
Init ==
    /\ input \in OptionsInputs
    /\ client = NotBuilt
    /\ options = ZeroOptions
    /\ given \in NewRequests
    /\ last = ZeroToken
    /\ lock = 0
    /\ clock = StartTime
    /\ pc = [p \in Procs |-> "idle"]
    /\ now = [p \in Procs |-> ZeroTime]
    /\ tok = [p \in Procs |-> ZeroToken]
    /\ err = [p \in Procs |-> NoError]
    /\ req = [p \in Procs |-> NoRequest]
    /\ result = [p \in Procs |-> NoResult]
    /\ sent = [p \in Procs |-> <<>>]
    /\ hist = HistInit

(***************************************************************************)
(* New(options): the default of RefreshEarlier, newTokenGenerator (no      *)
(* Source is given), then newClientset, which decodes the CA data and      *)
(* builds the clientset around a tokenTransport.                           *)
(***************************************************************************)
New ==
    /\ client = NotBuilt
    /\ \E eg \in {NoError} \cup NewGeneratorErrors,
          ec \in {NoError} \cup NewForConfigErrors :
          IF eg # NoError
            THEN /\ client' = [clientset |-> NoClientset, err |-> eg]
                 /\ UNCHANGED <<options, last>>
            ELSE LET g == newTokenGenerator(NewOptions(input.ReuseToken,
                                                       input.RefreshEarlier))
                 IN /\ options' = g.options
                    /\ last' = g.last
                    /\ client' = newClientset(DecodeStringError(input.ClusterCAData), ec)
    /\ UNCHANGED <<input, given, lock, clock, pc, now, tok, err, req, result, sent, hist>>

(***************************************************************************)
(* Time passes.                                                            *)
(***************************************************************************)
Tick ==
    /\ clock < StartTime + MaxClock
    /\ clock' = clock + 1
    /\ UNCHANGED <<input, client, given, options, last, lock, pc, now, tok, err, req, result, sent, hist>>

\* goroutine q has sent no request yet
NeverStarted(q) == pc[q] = "idle" /\ result[q] = NoResult

(***************************************************************************)
(* A goroutine hands a request to tokenTransport.RoundTrip, which is about *)
(* to call t.source.Get().  Goroutines are numbered in the order of their  *)
(* first request.                                                          *)
(***************************************************************************)
RoundTripBegin(p) ==
    /\ client.clientset # NoClientset
    /\ pc[p] = "idle"
    /\ hist.requests < MaxRequests
    /\ \A q \in 1..(p - 1) : ~NeverStarted(q)
    /\ req' = [req EXCEPT ![p] = given]
    /\ hist' = [hist EXCEPT !.requests = @ + 1, !.orig[p] = given,
                            !.reply[p] = NoResult]
    /\ pc' = [pc EXCEPT ![p] = "Get"]
    /\ result' = [result EXCEPT ![p] = NoResult]
    /\ sent' = [sent EXCEPT ![p] = <<>>]
    /\ err' = [err EXCEPT ![p] = NoError]
    /\ UNCHANGED <<input, client, given, options, last, lock, clock, now, tok>>

LockIgnored == TRUE

\* sync.Mutex.Lock returns only when the mutex is free
LockFree == lock = 0

(***************************************************************************)
(* Get, from g.lock.Lock() to the decision of needsRefresh(now): either    *)
(* the generator is invoked, or g.last is the value to return.             *)
(***************************************************************************)
GetEnter(p) ==
    /\ pc[p] = "Get"
    /\ LockFree
    /\ lock' = p
    /\ now' = [now EXCEPT ![p] = clock]
    /\ IF needsRefresh(options, last, clock)
         THEN /\ pc' = [pc EXCEPT ![p] = "generate"]
              /\ hist' = [hist EXCEPT !.genCalls = @ + 1,
                                      !.calls[p] = @ + 1,
                                      !.serial = @ + 1,
                                      !.order[p] = hist.serial + 1,
                                      !.before[p] = last,
                                      !.afterFail[p] = hist.failed]
              /\ UNCHANGED <<tok, err>>
         ELSE /\ pc' = [pc EXCEPT ![p] = "return"]
              /\ tok' = [tok EXCEPT ![p] = last]
              /\ err' = [err EXCEPT ![p] = NoError]
              /\ hist' = [hist EXCEPT !.serial = @ + 1,
                                      !.order[p] = hist.serial + 1,
                                      !.before[p] = last,
                                      !.afterFail[p] = hist.failed,
                                      !.failed = FALSE]
    /\ UNCHANGED <<input, client, given, options, last, clock, req, result, sent>>

ReturnedErrorSwallowed(e) == NoError

\* the error Get returns after the generator returned error e
ReturnedError(e) == e

StoredAfterGenerateStamped(l, t, e) ==
    IF e = NoError THEN t
    ELSE [Token |-> l.Token, Expiration |-> l.Expiration + 100]

\* the value Get stores in g.last after the generator returned (t, e)
StoredAfterGenerate(l, t, e) == t

(***************************************************************************)
(* g.generator.GetWithOptions returns (t, e); Get stores t in g.last and   *)
(* returns (t, e).                                                         *)
(***************************************************************************)
GenerateDone(p, t, e) ==
    /\ last' = StoredAfterGenerate(last, t, e)
    /\ tok' = [tok EXCEPT ![p] = t]
    /\ err' = [err EXCEPT ![p] = ReturnedError(e)]
    /\ pc' = [pc EXCEPT ![p] = "return"]
    /\ hist' = [hist EXCEPT !.genErr[p] = e,
                            !.genTok[p] = t,
                            !.failed = (e # NoError),
                            !.minted = IF e = NoError THEN Append(@, t) ELSE @]
    /\ UNCHANGED <<input, client, given, options, lock, clock, now, req, result, sent>>

\* the generator succeeds: a new token string, expiring some time from now
GenerateOk(p) ==
    /\ pc[p] = "generate"
    /\ \E life \in Lifetimes :
          GenerateDone(p, [Token |-> TokenString(Len(hist.minted) + 1),
                           Expiration |-> clock + life], NoError)

\* the generator fails: the zero token and an error
GenerateFail(p) ==
    /\ pc[p] = "generate"
    /\ \E e \in GenErrors : GenerateDone(p, ZeroToken, e)

\* RoundTrip returns: its locals, and the history of its Get, are gone
HistGone(h, p) ==
    [h EXCEPT !.order[p] = 0,
              !.before[p] = ZeroToken,
              !.calls[p] = 0,
              !.genErr[p] = NoError,
              !.genTok[p] = ZeroToken,
              !.afterFail[p] = FALSE,
              !.waited[p] = FALSE]

(***************************************************************************)
(* Get returns: the deferred g.lock.Unlock() runs and RoundTrip has        *)
(* (tok, err).  The history after the return.                              *)
(***************************************************************************)
GetReturn(p) ==
    [hist EXCEPT !.getCalls = @ + 1,
                 !.lastOk = IF err[p] = NoError THEN tok[p] ELSE @,
                 !.waited = [q \in Procs |-> @[q] \/ pc[q] = "Get"]]

UnlockedOnSuccess(l, e) == IF e = NoError THEN 0 ELSE l

\* the lock after the deferred g.lock.Unlock() of a Get that returns error e
Unlocked(l, e) == 0

GetFailedNever(e) == FALSE

\* RoundTrip's test err != nil
GetFailed(e) == e # NoError

(***************************************************************************)
(* Get returns an error to RoundTrip, which returns (nil, err).            *)
(***************************************************************************)
RoundTripAbort(p) ==
    /\ pc[p] = "return"
    /\ GetFailed(err[p])
    /\ lock' = Unlocked(lock, err[p])
    /\ result' = [result EXCEPT ![p] = [resp |-> NoResponse, err |-> err[p]]]
    /\ pc' = [pc EXCEPT ![p] = "idle"]
    /\ now' = [now EXCEPT ![p] = ZeroTime]
    /\ tok' = [tok EXCEPT ![p] = ZeroToken]
    /\ hist' = HistGone(GetReturn(p), p)
    /\ UNCHANGED <<input, client, given, options, last, clock, err, req, sent>>

(***************************************************************************)
(* Get returns a token to RoundTrip, which sets the Authorization header   *)
(* and is about to call the wrapped transport.                             *)
(***************************************************************************)
RoundTripSetHeader(p) ==
    /\ pc[p] = "return"
    /\ ~GetFailed(err[p])
    /\ lock' = Unlocked(lock, err[p])
    /\ req' = [req EXCEPT ![p] = HeaderSet(@, "Authorization", Bearer(tok[p].Token))]
    /\ pc' = [pc EXCEPT ![p] = "send"]
    /\ hist' = GetReturn(p)
    /\ UNCHANGED <<input, client, given, options, last, clock, now, tok, err, result, sent>>

RoundTripResultNoError(r) == [resp |-> r.resp, err |-> NoError]

\* what RoundTrip returns when the wrapped transport returned r
RoundTripResult(r) == r

(***************************************************************************)
(* return t.transport.RoundTrip(req): the wrapped transport receives the   *)
(* request and its response and error are RoundTrip's.  What was sent is   *)
(* in sent; the request as the caller gave it is forgotten.                *)
(***************************************************************************)
RoundTripSend(p) ==
    /\ pc[p] = "send"
    /\ sent' = [sent EXCEPT ![p] = Append(@, req[p])]
    /\ \E r \in [resp : Responses, err : {NoError}]
              \cup [resp : {NoResponse}, err : TransportErrors] :
          /\ result' = [result EXCEPT ![p] = RoundTripResult(r)]
          /\ hist' = [HistGone(hist, p) EXCEPT !.orig[p] = NoRequest,
                                              !.reply[p] = r]
    /\ pc' = [pc EXCEPT ![p] = "idle"]
    /\ now' = [now EXCEPT ![p] = ZeroTime]
    /\ tok' = [tok EXCEPT ![p] = ZeroToken]
    /\ UNCHANGED <<input, client, given, options, last, lock, clock, err, req>>

Next ==
    \/ New
    \/ Tick
    \/ \E p \in Procs : RoundTripBegin(p)
    \/ \E p \in Procs : GetEnter(p)
    \/ \E p \in Procs : GenerateOk(p)
    \/ \E p \in Procs : GenerateFail(p)
    \/ \E p \in Procs : RoundTripAbort(p)
    \/ \E p \in Procs : RoundTripSetHeader(p)
    \/ \E p \in Procs : RoundTripSend(p)

Spec == Init /\ [][Next]_vars

(***************************************************************************)
(* Scheduling.  A goroutine that can run does run: a Get that has its      *)
(* result returns, and RoundTrip goes on.  A sync.Mutex does not starve a  *)
(* waiter: a goroutine that has waited 1ms for it is handed the mutex at   *)
(* the next Unlock, so a Get that finds the mutex free again and again     *)
(* does acquire it.  A generator invocation returns, with a token or with  *)
(* an error.                                                               *)
(***************************************************************************)
Fairness ==
    \A p \in Procs :
        /\ SF_vars(GetEnter(p))
        /\ WF_vars(GenerateOk(p) \/ GenerateFail(p))
        /\ WF_vars(RoundTripAbort(p))
        /\ WF_vars(RoundTripSetHeader(p))

\* the callers that enable ReuseToken, the mode in which a Get has its three
\* ways out (reuse, generation, failed generation), with well-formed CA data
\* and requests that carry no Authorization value
InitFair ==
    /\ Init
    /\ input.ReuseToken
    /\ DecodeStringError(input.ClusterCAData) = NoError
    /\ given.Authorization = <<>>

SpecFair == InitFair /\ [][Next]_vars /\ Fairness

(***************************************************************************)
(* The token cache of eksclient/client.go: no lock, no ReuseToken option,  *)
(* refreshEarlier fixed to 10s.  Get reads and writes g.last without       *)
(* synchronization, so every access is a step of its own, and the write of *)
(* the two-field struct is two steps: a concurrent reader can see one      *)
(* field of the new token next to the other field of the old one.          *)
(***************************************************************************)

\* needsRefresh(refreshEarlier, expiration): time.Now().Add(r).After(e)
needsRefreshPlain(refreshEarlier, expiration, n) == n + refreshEarlier > expiration

\* the Options of client.go have no RefreshEarlier and no ReuseToken
PlainOptionsInputs ==
    {o \in OptionsInputs : ~o.ReuseToken /\ o.RefreshEarlier = 0}

InitPlain ==
    /\ input \in PlainOptionsInputs
    /\ client = NotBuilt
    /\ options = ZeroOptions
    /\ given \in NewRequests
    /\ last = ZeroToken
    /\ lock = 0
    /\ clock = StartTime
    /\ pc = [p \in Procs |-> "idle"]
    /\ now = [p \in Procs |-> ZeroTime]
    /\ tok = [p \in Procs |-> ZeroToken]
    /\ err = [p \in Procs |-> NoError]
    /\ req = [p \in Procs |-> NoRequest]
    /\ result = [p \in Procs |-> NoResult]
    /\ sent = [p \in Procs |-> <<>>]
    /\ hist = HistInit

\* newTokenGenerator: refreshEarlier is 10s, g.last is not set
newTokenGeneratorPlain ==
    [options |-> [ReuseToken |-> TRUE, RefreshEarlier |-> DefaultRefreshEarlier],
     last |-> ZeroToken]

\* New(options): newTokenGenerator (no Source is given), then newClientset
NewPlain ==
    /\ client = NotBuilt
    /\ \E eg \in {NoError} \cup NewGeneratorErrors,
          ec \in {NoError} \cup NewForConfigErrors :
          IF eg # NoError
            THEN /\ client' = [clientset |-> NoClientset, err |-> eg]
                 /\ UNCHANGED <<options, last>>
            ELSE /\ options' = newTokenGeneratorPlain.options
                 /\ last' = newTokenGeneratorPlain.last
                 /\ client' = newClientset(DecodeStringError(input.ClusterCAData), ec)
    /\ UNCHANGED <<input, given, lock, clock, pc, now, tok, err, req, result, sent, hist>>

\* Get evaluates needsRefresh(g.refreshEarlier, g.last.Expiration)
PlainGetCheck(p) ==
    /\ pc[p] = "Get"
    /\ now' = [now EXCEPT ![p] = clock]
    /\ IF needsRefreshPlain(options.RefreshEarlier, last.Expiration, clock)
         THEN /\ pc' = [pc EXCEPT ![p] = "generate"]
              /\ hist' = [hist EXCEPT !.genCalls = @ + 1,
                                      !.calls[p] = @ + 1,
                                      !.serial = @ + 1,
                                      !.order[p] = hist.serial + 1,
                                      !.before[p] = last,
                                      !.afterFail[p] = hist.failed]
         ELSE /\ pc' = [pc EXCEPT ![p] = "reuse"]
              /\ hist' = [hist EXCEPT !.serial = @ + 1,
                                      !.order[p] = hist.serial + 1,
                                      !.before[p] = last,
                                      !.afterFail[p] = hist.failed,
                                      !.failed = FALSE]
    /\ UNCHANGED <<input, client, given, options, last, lock, clock, tok, err, req, result, sent>>

\* return g.last, nil
PlainGetReuse(p) ==
    /\ pc[p] = "reuse"
    /\ tok' = [tok EXCEPT ![p] = last]
    /\ err' = [err EXCEPT ![p] = NoError]
    /\ pc' = [pc EXCEPT ![p] = "return"]
    /\ UNCHANGED <<input, client, given, options, last, lock, clock, now, req, result, sent, hist>>

\* tok, err := g.generator.GetWithOptions(g.options)
PlainGenerateDone(p, t, e) ==
    /\ tok' = [tok EXCEPT ![p] = t]
    /\ err' = [err EXCEPT ![p] = e]
    /\ pc' = [pc EXCEPT ![p] = "store"]
    /\ hist' = [hist EXCEPT !.genErr[p] = e,
                            !.genTok[p] = t,
                            !.failed = (e # NoError),
                            !.minted = IF e = NoError THEN Append(@, t) ELSE @]
    /\ UNCHANGED <<input, client, given, options, last, lock, clock, now, req, result, sent>>

PlainGenerateOk(p) ==
    /\ pc[p] = "generate"
    /\ \E life \in Lifetimes :
          PlainGenerateDone(p, [Token |-> TokenString(Len(hist.minted) + 1),
                                Expiration |-> clock + life], NoError)

PlainGenerateFail(p) ==
    /\ pc[p] = "generate"
    /\ \E e \in GenErrors : PlainGenerateDone(p, ZeroToken, e)

\* g.last = tok, first part: one of the two fields is written
PlainStoreField(p) ==
    /\ pc[p] = "store"
    /\ \/ last' = [last EXCEPT !.Token = tok[p].Token]
       \/ last' = [last EXCEPT !.Expiration = tok[p].Expiration]
    /\ pc' = [pc EXCEPT ![p] = "stored"]
    /\ UNCHANGED <<input, client, given, options, lock, clock, now, tok, err, req, result, sent, hist>>

\* g.last = tok, second part: both fields are written; return tok, err
PlainStoreRest(p) ==
    /\ pc[p] = "stored"
    /\ last' = tok[p]
    /\ pc' = [pc EXCEPT ![p] = "return"]
    /\ UNCHANGED <<input, client, given, options, lock, clock, now, tok, err, req, result, sent, hist>>

NextPlain ==
    \/ NewPlain
    \/ Tick
    \/ \E p \in Procs : RoundTripBegin(p)
    \/ \E p \in Procs : PlainGetCheck(p)
    \/ \E p \in Procs : PlainGetReuse(p)
    \/ \E p \in Procs : PlainGenerateOk(p)
    \/ \E p \in Procs : PlainGenerateFail(p)
    \/ \E p \in Procs : PlainStoreField(p)
    \/ \E p \in Procs : PlainStoreRest(p)
    \/ \E p \in Procs : RoundTripAbort(p)
    \/ \E p \in Procs : RoundTripSetHeader(p)
    \/ \E p \in Procs : RoundTripSend(p)

SpecPlain == InitPlain /\ [][NextPlain]_vars

TypeOK ==
    /\ input \in OptionsInputs
    /\ client \in [clientset : {NoClientset, Clientset},
                   err : {NoError, CorruptInput} \cup NewGeneratorErrors
                                                \cup NewForConfigErrors]
    /\ options \in [ReuseToken : BOOLEAN, RefreshEarlier : Int]
    /\ lock \in 0..NumProcs
    /\ clock \in StartTime..(StartTime + MaxClock)
    /\ pc \in [Procs -> {"idle", "Get", "generate", "store", "stored", "reuse",
                     "return", "send"}]

(***************************************************************************)
(* Properties.                                                             *)
(***************************************************************************)

\* p's Get is between its decision and its return: it holds the lock
InGet(p) == pc[p] \in {"generate", "return"}

\* p's Get has its result, and RoundTrip has not returned yet
Returned(p) == pc[p] \in {"return", "send"}

Minted(t) == \E i \in 1..Len(hist.minted) : hist.minted[i] = t

MintIndex(t) == CHOOSE i \in 1..Len(hist.minted) : hist.minted[i] = t

\* g.last as p's Get leaves it
LeftBy(p) == IF hist.calls[p] = 1 THEN hist.genTok[p] ELSE hist.before[p]

\* C1: when the generator fails in a Get, the cached token after the call is
\* the token that was cached before the call.
C1_FailurePreservesCache ==
    \A p \in Procs :
        (pc[p] = "return" /\ hist.calls[p] = 1 /\ hist.genErr[p] # NoError)
            => last = hist.before[p]

\* C2: with reuse enabled, a Get that finds the cached token expiring strictly
\* later than now + RefreshEarlier returns that token without error, invokes
\* the generator zero times and leaves the cached token as it was.
C2_ReuseBranch ==
    \A p \in Procs :
        (/\ pc[p] = "return"
         /\ options.ReuseToken
         /\ hist.before[p].Expiration > now[p] + options.RefreshEarlier)
            => /\ tok[p] = hist.before[p]
               /\ err[p] = NoError
               /\ hist.calls[p] = 0
               /\ last = hist.before[p]

C2_Witness ==
    \E p \in Procs :
        /\ pc[p] = "return"
        /\ options.ReuseToken
        /\ hist.before[p].Expiration > now[p] + options.RefreshEarlier
        /\ Minted(hist.before[p])

\* C3: with reuse enabled, a Get that finds now + RefreshEarlier at or after
\* the cached token's expiration (equality included) invokes the generator
\* once and, on success, returns the generated token, not the cached one.
C3_RefreshAtOrAfter ==
    \A p \in Procs :
        (/\ InGet(p)
         /\ options.ReuseToken
         /\ now[p] + options.RefreshEarlier >= hist.before[p].Expiration)
            => /\ hist.calls[p] = 1
               /\ (pc[p] = "return" /\ err[p] = NoError)
                     => (tok[p] = hist.genTok[p] /\ tok[p] # hist.before[p])

\* C4: with reuse disabled, the generator has been invoked once for every Get
\* that returned or is under way, a Get that succeeds returns the token its
\* own invocation produced, and Gets return the generated tokens in the order
\* of the calls.
C4_AlwaysMode ==
    ~options.ReuseToken =>
        /\ hist.genCalls = hist.getCalls + Cardinality({p \in Procs : InGet(p)})
        /\ \A p \in Procs :
              (pc[p] = "return" /\ err[p] = NoError)
                 => /\ Len(hist.minted) > 0
                    /\ tok[p] = hist.minted[Len(hist.minted)]
        /\ \A p, q \in Procs :
              (/\ Returned(p) /\ Returned(q)
               /\ err[p] = NoError /\ err[q] = NoError
               /\ hist.order[p] < hist.order[q])
                 => /\ Minted(tok[p]) /\ Minted(tok[q])
                    /\ MintIndex(tok[p]) < MintIndex(tok[q])

\* two Gets in a row return tok1 then tok2, tok1 being far from expiring
C4_Witness ==
    /\ ~options.ReuseToken
    /\ hist.getCalls = 2
    /\ hist.genCalls = 2
    /\ \E p, q \in Procs :
          /\ pc[p] = "send" /\ pc[q] = "send"
          /\ hist.order[p] < hist.order[q]
          /\ tok[p].Token = "tok1" /\ tok[q].Token = "tok2"
          /\ hist.before[q] = tok[p]
          /\ tok[p].Expiration > now[q] + options.RefreshEarlier

\* C5: in the cache with the lock, at most one generator invocation is in
\* flight, at most one Get is between its freshness check and its return, and
\* a Get that waited for the lock while an earlier Get ran checks freshness
\* against the token that earlier Get left in the cache.
C5_MutualExclusion ==
    /\ Cardinality({p \in Procs : pc[p] = "generate"}) <= 1
    /\ \A p, q \in Procs : (InGet(p) /\ InGet(q)) => p = q
    /\ \A p \in Procs : InGet(p) => lock = p
    /\ \A p, q \in Procs :
          (/\ pc[p] = "send"
           /\ InGet(q) \/ Returned(q)
           /\ hist.order[q] = hist.order[p] + 1)
             => hist.before[q] = LeftBy(p)

\* q called Get while p's Get was generating, and now checks against p's token
C5_Witness ==
    \E p, q \in Procs :
        /\ pc[p] = "send"
        /\ InGet(q)
        /\ hist.waited[q]
        /\ hist.order[q] = hist.order[p] + 1
        /\ hist.calls[p] = 1
        /\ hist.before[q] = tok[p]
        /\ hist.before[q] # hist.before[p]

\* C6: with reuse enabled, once a Get has generated a token that still
\* expires later than now + RefreshEarlier when a later Get runs, that later
\* Get invokes no generator and returns the same token; every token a Get
\* returns without error is one the generator produced, whole.
C6_NoRedundantRefresh ==
    options.ReuseToken =>
        /\ \A p, q \in Procs :
              (/\ Returned(p) /\ Returned(q)
               /\ hist.order[p] < hist.order[q]
               /\ hist.calls[p] = 1
               /\ err[p] = NoError
               /\ tok[p].Expiration > now[q] + options.RefreshEarlier)
                 => /\ hist.calls[q] = 0
                    /\ err[q] = NoError
                    /\ tok[q] = tok[p]
        /\ \A p \in Procs : (Returned(p) /\ err[p] = NoError) => Minted(tok[p])

\* two Gets called against a token that needs refresh, the second waiting for
\* the lock while the first generates: one generation, the same token twice
C6_Witness ==
    /\ options.ReuseToken
    /\ hist.genCalls = 1
    /\ \E p, q \in Procs :
          /\ Returned(p) /\ Returned(q)
          /\ hist.waited[q]
          /\ hist.order[q] = hist.order[p] + 1
          /\ needsRefresh(options, hist.before[p], now[p])
          /\ hist.calls[p] = 1
          /\ hist.calls[q] = 0
          /\ tok[q] = tok[p]
          /\ err[q] = NoError

\* C7: a request about to be forwarded carries "Bearer <token>" where <token>
\* is the token of the most recent Get that returned without error.
C7_MostRecentGet ==
    \A p \in Procs :
        pc[p] = "send" =>
            req[p].Authorization = <<"Bearer " \o hist.lastOk.Token>>

\* C7 (amended): a request about to be forwarded carries "Bearer <token>" as
\* its only Authorization value, where <token> is the token the request's own
\* Get returned without error; the wrapped transport receives that request.
C7_OwnGet ==
    \A p \in Procs :
        /\ pc[p] = "send" =>
              /\ err[p] = NoError
              /\ req[p].Authorization = <<"Bearer " \o tok[p].Token>>
        /\ \A i \in 1..Len(sent[p]) :
              /\ sent[p][i] = req[p]
              /\ Len(sent[p][i].Authorization) = 1

\* a request is about to be forwarded with the token of its own Get after a
\* later Get returned another token
C7_Witness ==
    \E p \in Procs :
        /\ pc[p] = "send"
        /\ hist.orig[p].Authorization # <<>>
        /\ req[p].Authorization = <<"Bearer " \o tok[p].Token>>
        /\ hist.lastOk # tok[p]

\* C8: when the Get of a request returned an error, RoundTrip returns that
\* error and no response, the wrapped transport is not invoked for the
\* request, and the request's headers are as the caller gave them.
C8_AbortBeforeSend ==
    \A p \in Procs :
        err[p] # NoError
            => /\ pc[p] # "send"
               /\ sent[p] = <<>>
               /\ req[p] = hist.orig[p]
               /\ pc[p] = "idle" => result[p] = [resp |-> NoResponse, err |-> err[p]]

C8_Witness ==
    \E p \in Procs :
        /\ pc[p] = "idle"
        /\ err[p] \in GenErrors
        /\ result[p] = [resp |-> NoResponse, err |-> err[p]]
        /\ req[p] \in NewRequests
        /\ sent[p] = <<>>

\* C9: a Get that returns without error returns a token that a successful
\* generator invocation produced: never the never-set token, never the value
\* stored after a failed generation.
C9_NoInvalidCredential ==
    \A p \in Procs :
        (Returned(p) /\ err[p] = NoError)
            => /\ Minted(tok[p])
               /\ tok[p] # ZeroToken

\* a Get succeeds after a Get whose generation failed
C9_Witness ==
    \E p, q \in Procs :
        /\ pc[p] = "idle" /\ err[p] # NoError
        /\ pc[q] = "return" /\ err[q] = NoError
        /\ hist.before[q] = ZeroToken

\* C10: a Get returns an error exactly when it invoked the generator and the
\* generator returned an error, the error is the generator's, and a Get
\* invokes the generator at most once.
C10_ErrorsNotSwallowed ==
    \A p \in Procs :
        /\ hist.calls[p] <= 1
        /\ Returned(p) =>
              /\ (err[p] # NoError) <=> (hist.calls[p] = 1 /\ hist.genErr[p] # NoError)
              /\ err[p] = hist.genErr[p]

C10_Witness ==
    \E p, q \in Procs :
        /\ pc[p] = "idle" /\ err[p] = "errSession"
        /\ pc[q] = "return" /\ err[q] = "errPresign"
        /\ hist.genErr[q] = "errPresign"

\* p is inside the Get its RoundTrip called
Getting(p) == pc[p] \in {"Get", "generate", "store", "stored", "reuse", "return"}

\* p's last RoundTrip has returned after the wrapped transport returned
Delegated(p) == pc[p] = "idle" /\ hist.reply[p] # NoResult

\* C11: every RoundTrip makes one Get; a request whose Get succeeded reaches
\* the wrapped transport exactly once, with the Authorization header already
\* set to a generated token, and RoundTrip returns the response and error of
\* the wrapped transport as they are; after a failure of the wrapped transport
\* there is no second send and no second Get.
C11_SingleDelegation ==
    /\ hist.requests = hist.getCalls + Cardinality({p \in Procs : Getting(p)})
    /\ \A p \in Procs :
          /\ Len(sent[p]) <= 1
          /\ pc[p] = "send" => sent[p] = <<>>
          /\ (pc[p] = "idle" /\ ~Delegated(p)) => sent[p] = <<>>
          /\ Delegated(p) =>
                /\ err[p] = NoError
                /\ Len(sent[p]) = 1
                /\ \E i \in 1..Len(hist.minted) :
                      sent[p][1].Authorization = <<Bearer(hist.minted[i].Token)>>
                /\ result[p] = hist.reply[p]

\* the wrapped transport failed for the only request: one Get, one send, and
\* the failure is what RoundTrip returned
C11_Witness ==
    \E p \in Procs :
        /\ Delegated(p)
        /\ hist.reply[p] = [resp |-> NoResponse, err |-> "errNet"]
        /\ result[p].err = "errNet"
        /\ Len(sent[p]) = 1
        /\ hist.requests = 1
        /\ hist.getCalls = 1
        /\ \A q \in Procs : pc[q] = "idle"

\* p's Get is calling the generator or storing what it returned
Generating(p) == pc[p] \in {"generate", "store", "stored"}

\* no request is in flight: no goroutine is inside RoundTrip
NoneInFlight == \A p \in Procs : pc[p] = "idle"

\* C12, in every state: no more generator invocations than requests, none
\* before the first request, and a generating Get belongs to a request in
\* flight on a built client
C12_State ==
    /\ hist.genCalls <= hist.requests
    /\ hist.requests = 0 =>
          /\ hist.genCalls = 0
          /\ hist.minted = <<>>
          /\ last = ZeroToken
    /\ \A p \in Procs :
          Generating(p) => /\ req[p] \in NewRequests
                           /\ req[p] = hist.orig[p]
                           /\ client.clientset = Clientset

\* C12, in every step: New invokes nothing and caches nothing, a generator
\* invocation starts in a Get, the cached token changes only under a
\* generating Get, and nothing of this happens while no request is in flight
C12_Step ==
    /\ client' # client =>
          /\ hist'.genCalls = 0
          /\ hist'.getCalls = 0
          /\ last' = ZeroToken
    /\ hist'.genCalls # hist.genCalls =>
          /\ hist'.genCalls = hist.genCalls + 1
          /\ \E p \in Procs : pc[p] = "Get" /\ pc'[p] = "generate"
    /\ last' # last => \E p \in Procs : Generating(p)
    /\ NoneInFlight => /\ last' = last
                       /\ hist'.genCalls = hist.genCalls
                       /\ hist'.minted = hist.minted

\* C12: New invokes the generator zero times and leaves the cache unset;
\* every generator invocation starts in a Get of a RoundTrip that is in
\* flight; the cached token changes only while a Get is generating; while no
\* request is in flight no step changes the cached token or invokes the
\* generator.
C12_LazyRefresh == []C12_State /\ [][C12_Step]_vars

\* a generated token is cached, time has passed and no request is in flight
C12_Witness ==
    /\ client.clientset = Clientset
    /\ NoneInFlight
    /\ hist.requests = 1
    /\ hist.genCalls = 1
    /\ clock > StartTime
    /\ Minted(last)

\* p's Get is between its read of the cached token and its return
Accessing(p) == pc[p] \in {"generate", "store", "stored", "reuse"}

\* C13: in the cache of client.go, the read of the cached token, the
\* generator invocation and the store of one Get are never interleaved with
\* those of another Get: two Gets are never both between the read and the
\* return, and never both invoke the generator after they observed
\* needs-refresh against the same cached token.
C13_PlainSerialized ==
    \A p, q \in Procs :
        p # q =>
            /\ ~(Accessing(p) /\ Accessing(q))
            /\ ~(/\ Generating(p) /\ Generating(q)
                  /\ hist.before[p] = hist.before[q])

\* New has returned
Built == client # NotBuilt

\* C14: when the CA data is not well-formed base64, New returns an error and
\* no clientset (the decoder's error, unless the generator could not be
\* created before), Get is not called and the generator is not invoked during
\* construction, and no request ever goes through a client.
C14_BadCAData ==
    (Built /\ DecodeStringError(input.ClusterCAData) # NoError) =>
        /\ client.clientset = NoClientset
        /\ client.err \in {CorruptInput} \cup NewGeneratorErrors
        /\ hist.serial = 0
        /\ hist.getCalls = 0
        /\ hist.genCalls = 0
        /\ hist.requests = 0
        /\ last = ZeroToken
        /\ NoneInFlight

\* New returned the decoder's error for CA data with padding inside
C14_Witness ==
    /\ input.ClusterCAData = <<"Q", "=", "J", "D">>
    /\ client = [clientset |-> NoClientset, err |-> CorruptInput]
    /\ clock > StartTime

\* the lead time the caller of New asked for: the override, 10s without one
AskedLead == IF input.RefreshEarlier # 0 THEN input.RefreshEarlier ELSE 10

\* C15: the cache that New built holds the caller's RefreshEarlier when the
\* caller gave one and 10s otherwise, and the caller's reuse flag; its Gets
\* decide with them: a Get returns the cached token without generating
\* exactly when the caller enabled reuse and now plus that lead time is not
\* after the cached expiration.
C15_LeadTimeSelection ==
    client.clientset = Clientset =>
        /\ options.RefreshEarlier = AskedLead
        /\ options.ReuseToken = input.ReuseToken
        /\ \A p \in Procs :
              pc[p] = "return" =>
                  (hist.calls[p] = 0 <=>
                      /\ input.ReuseToken
                      /\ now[p] + AskedLead <= hist.before[p].Expiration)

\* with an override of 1s, a Get reuses a token that the default lead time
\* of 10s would have refreshed
C15_Witness ==
    \E p \in Procs :
        /\ input.RefreshEarlier = 1
        /\ input.ReuseToken
        /\ pc[p] = "return"
        /\ hist.calls[p] = 0
        /\ Minted(hist.before[p])
        /\ now[p] + 10 > hist.before[p].Expiration

\* a generator invocation is in flight before and after the step
StillGenerating == \E p \in Procs : pc[p] = "generate" /\ pc'[p] = "generate"

\* C16, in every state: the generating Get holds the lock and no other Get is
\* past the lock
C16_State ==
    \A p, q \in Procs :
        (p # q /\ pc[p] = "generate") =>
            /\ lock = p
            /\ pc[q] \notin {"generate", "return"}

\* C16, in every step that leaves a generator invocation in flight: no Get
\* returns, none acquires the lock, the cached token stays, a Get at the lock
\* stays at the lock
C16_Step ==
    StillGenerating =>
        /\ hist'.getCalls = hist.getCalls
        /\ hist'.serial = hist.serial
        /\ last' = last
        /\ \A q \in Procs : pc[q] = "Get" => pc'[q] = "Get"

\* C16: in the cache with the lock, while the generator invocation of one Get
\* is in flight no other Get is past the lock, and no step taken while it
\* stays in flight lets a Get acquire the lock or return: a Get called in the
\* meantime stays at the lock for as long as the invocation lasts, for ever if
\* the invocation never returns.
C16_SerializeBehindGeneration == []C16_State /\ [][C16_Step]_vars

\* a Get waits at the lock while another Get's generator invocation is in
\* flight, and time has passed since that Get started
C16_Witness ==
    \E p, q \in Procs :
        /\ pc[p] = "generate"
        /\ pc[q] = "Get"
        /\ clock > now[p]
        /\ lock = p

\* request b is request a but for the values of its Authorization header
SameButAuthorization(a, b) ==
    /\ DOMAIN b = DOMAIN a
    /\ \A f \in DOMAIN a \ {"Authorization"} : b[f] = a[f]

\* C17, in every state: the request is as given until Get has returned, then
\* as given but for the single Authorization value, and so it is sent
C17_State ==
    \A p \in Procs :
        /\ Getting(p) => req[p] = hist.orig[p]
        /\ pc[p] = "send" =>
              /\ SameButAuthorization(hist.orig[p], req[p])
              /\ req[p].Authorization = <<Bearer(tok[p].Token)>>
        /\ \A i \in 1..Len(sent[p]) :
              /\ SameButAuthorization(given, sent[p][i])
              /\ Len(sent[p][i].Authorization) = 1
              /\ sent[p][i] = req[p]

\* C17, in every step of RoundTrip outside Get: the cached token and the
\* options stay; the lock changes only with the return of Get
C17_Step ==
    \A p \in Procs :
        /\ (pc[p] \in {"idle", "return", "send"} /\ pc'[p] # pc[p]) =>
               /\ last' = last
               /\ options' = options
        /\ (pc[p] \in {"idle", "send"} /\ pc'[p] # pc[p]) => lock' = lock

\* C17: when Get succeeded, the request RoundTrip hands to the wrapped
\* transport is the request it was given (method, URL, body, context, other
\* headers) but for the Authorization header, whose values, whatever they
\* were, are replaced by the single value "Bearer <token>"; before Get returns
\* the request is untouched; the steps of RoundTrip outside Get write neither
\* the cached token nor the cache's options nor its lock.
C17_RoundTripFrame == []C17_State /\ [][C17_Step]_vars

\* the wrapped transport received a request that came with an Authorization
\* value: that value is replaced, the rest is as given
C17_Witness ==
    \E p \in Procs :
        /\ pc[p] = "idle"
        /\ given.Authorization = <<"Bearer stale">>
        /\ Len(sent[p]) = 1
        /\ sent[p][1].Authorization = <<"Bearer tok1">>
        /\ sent[p][1].Accept = <<"json">>
        /\ sent[p][1].Method = "GET"

\* C18: the first Get that runs after a Get whose generator invocation failed
\* invokes the generator, in always mode and in reuse mode; when that
\* invocation succeeds the Get returns the token just generated, without
\* error, and that token is the cached one.
C18_RecoveryAfterFailure ==
    \A p \in Procs :
        (InGet(p) /\ hist.afterFail[p]) =>
            /\ hist.calls[p] = 1
            /\ (pc[p] = "return" /\ hist.genErr[p] = NoError) =>
                  /\ err[p] = NoError
                  /\ tok[p] = hist.genTok[p]
                  /\ tok[p] = hist.minted[Len(hist.minted)]
                  /\ tok[p] # hist.before[p]
                  /\ last = tok[p]

\* in reuse mode, a Get succeeds right after a Get whose generation failed
C18_Witness ==
    \E p \in Procs :
        /\ options.ReuseToken
        /\ pc[p] = "return"
        /\ hist.afterFail[p]
        /\ hist.before[p] = ZeroToken
        /\ err[p] = NoError
        /\ tok[p].Token = "tok1"

\* C19, in every state: the lock is held by a goroutine exactly between the
\* decision of its Get and the return of that Get
C19_State ==
    /\ \A p \in Procs : lock = p <=> InGet(p)
    /\ lock = 0 <=> \A p \in Procs : ~InGet(p)

\* C19: in the cache with the lock, no goroutine holds the lock once its Get
\* has returned, whether the Get reused, generated or failed; and, every
\* generator invocation returning, every Get that was called returns: its
\* RoundTrip goes on to the header or returns the error.
C19_LockReleasedProgress ==
    /\ []C19_State
    /\ \A p \in Procs : (pc[p] = "Get") ~> (pc[p] \in {"send", "idle"})

\* a Get that waited for the lock while another Get ran has its result, and
\* the Get of another goroutine has ended in an error
C19_Witness ==
    \E p, q \in Procs :
        /\ pc[p] = "idle"
        /\ err[p] # NoError
        /\ pc[q] = "return"
        /\ hist.waited[q]
        /\ lock = q
====
